---- MODULE Spec2Model ----
(***************************************************************************)
(* play-cli: project resolution engine (src/utils.ts, src/command.ts).     *)
(*                                                                         *)
(* Strings are sequences of one-character strings, so that toLowerCase,    *)
(* includes, trim and the Levenshtein matrix are computed character by     *)
(* character as the code does.  A similarity score is the pair             *)
(* <<num, den>> standing for the IEEE double the code computes; doubles    *)
(* of the form 1, 0.8 and 1 - d/m are ordered exactly as the rationals     *)
(* they round, the comparison against the literal 0.3 excepted (see        *)
(* aboveThreshold).                                                        *)
(***************************************************************************)
EXTENDS Integers, Sequences, FiniteSets, TLC

VARIABLES
    str1, str2, simScore, simPc,                     \* calculateSimilarity call
    projects, sortedProjects, sortPc,                \* sortProjectsByDate call
    searchTerm, matches, targetProject, runPc,       \* fuzzyMatchProjects / runCommand
    spawned,                                         \* projects launched with bun
    items, page, pageSize, pageResult, pagPc,        \* paginateResults call
    nextPage, collected,                             \* walk over pages 1..totalPages
    envSet, readdirOk, dirEntries, statStatus,       \* getProjectsList
    allRejected, scanPc, scanResult

vars == <<str1, str2, simScore, simPc, projects, sortedProjects, sortPc,
          searchTerm, matches, targetProject, runPc, spawned,
          items, page, pageSize, pageResult, pagPc, nextPage, collected,
          envSet, readdirOk, dirEntries, statStatus, allRejected, scanPc, scanResult>>

simVars  == <<str1, str2, simScore, simPc>>
sortVars == <<projects, sortedProjects, sortPc>>
runVars  == <<searchTerm, matches, targetProject, runPc, spawned>>
pagVars  == <<items, page, pageSize, pageResult, pagPc, nextPage, collected>>
scanVars == <<envSet, readdirOk, dirEntries, statStatus, allRejected, scanPc, scanResult>>

\* ---------------------------------------------------------------- bounds
MaxLen      == 3     \* longest string of the exhaustive similarity inputs
MaxProjects == 3     \* longest candidate sequence
MaxTime     == 2     \* modification times are 1..MaxTime
MaxItems    == 4     \* longest exhaustively enumerated paginator input
MaxPageSize == 3     \* exhaustively enumerated page sizes are 1..MaxPageSize
MaxPage     == 4     \* exhaustively enumerated requested pages are -1..MaxPage
MaxDirs     == 3     \* entries of the projects directory

\* ---------------------------------------------------------------- helpers
Min2(a, b) == IF a <= b THEN a ELSE b
Max2(a, b) == IF a >= b THEN a ELSE b

SeqsUpTo(S, n) == UNION {[1..k -> S] : k \in 0..n}

\* ---------------------------------------------------------------- strings
UpperChars == <<"A","B","C","D","E","F","G","H","I","J","K","L","M",
                "N","O","P","Q","R","S","T","U","V","W","X","Y","Z">>
LowerChars == <<"a","b","c","d","e","f","g","h","i","j","k","l","m",
                "n","o","p","q","r","s","t","u","v","w","x","y","z">>

\* String.prototype.toLowerCase, one character
toLowerChar(c) ==
    IF \E i \in 1..Len(UpperChars) : UpperChars[i] = c
    THEN LowerChars[CHOOSE i \in 1..Len(UpperChars) : UpperChars[i] = c]
    ELSE c

\* String.prototype.toLowerCase
RECURSIVE toLowerCase(_)
toLowerCase(s) ==
    IF s = <<>> THEN <<>> ELSE <<toLowerChar(Head(s))>> \o toLowerCase(Tail(s))

\* String.prototype.includes: t occurs in s as a contiguous run
includes(s, t) ==
    \E k \in 0..(Len(s) - Len(t)) : \A i \in 1..Len(t) : s[k + i] = t[i]

\* String.prototype.trim (the only white space modelled is the blank)
RECURSIVE trimStart(_)
trimStart(s) == IF s # <<>> /\ Head(s) = " " THEN trimStart(Tail(s)) ELSE s
RECURSIVE trimEnd(_)
trimEnd(s) ==
    IF s # <<>> /\ s[Len(s)] = " " THEN trimEnd(SubSeq(s, 1, Len(s) - 1)) ELSE s
trim(s) == trimEnd(trimStart(s))

\* ---------------------------------------------------------------- scores
Score(n, d) == <<n, d>>
ScoreLT(a, b) == a[1] * b[2] < b[1] * a[2]
ScoreEQ(a, b) == a[1] * b[2] = b[1] * a[2]
ScoreLE(a, b) == ScoreLT(a, b) \/ ScoreEQ(a, b)

\* ---------------------------------------------------------------- calculateSimilarity
\* matrix[j][i] for i = 0..Len(s1), given row j-1 (prev) and the cells of
\* row j filled so far (cur); rows are stored as sequences, cell i at i+1
RECURSIVE fillRow(_, _, _, _, _)
fillRow(s1, s2, j, prev, cur) ==
    LET i == Len(cur) IN
    IF i > Len(s1) THEN cur
    ELSE LET cost == IF s1[i] = s2[j] THEN 0 ELSE 1
             cell == Min2(Min2(cur[i] + 1, prev[i + 1] + 1), prev[i] + cost)
         IN fillRow(s1, s2, j, prev, Append(cur, cell))

RECURSIVE matrixRow(_, _, _)
matrixRow(s1, s2, j) ==
    IF j = 0 THEN [i \in 1..(Len(s1) + 1) |-> i - 1]
    ELSE fillRow(s1, s2, j, matrixRow(s1, s2, j - 1), <<j>>)

\* matrix[s2.length][s1.length]
editDistance(s1, s2) == matrixRow(s1, s2, Len(s2))[Len(s1) + 1]

calculateSimilarityOneWay(a, b) ==
    LET s1 == toLowerCase(a)
        s2 == toLowerCase(b)
        maxLength == Max2(Len(s1), Len(s2))
    IN IF s1 = s2 THEN Score(1, 1)
       ELSE IF includes(s1, s2) THEN Score(4, 5)
       ELSE IF maxLength = 0 THEN Score(1, 1)
       ELSE Score(maxLength - editDistance(s1, s2), maxLength)

calculateSimilarityRaw(a, b) ==
    LET maxLength == Max2(Len(a), Len(b))
    IN IF toLowerCase(a) = toLowerCase(b) THEN Score(1, 1)
       ELSE IF includes(toLowerCase(a), toLowerCase(b))
               \/ includes(toLowerCase(b), toLowerCase(a)) THEN Score(4, 5)
       ELSE IF maxLength = 0 THEN Score(1, 1)
       ELSE Score(maxLength - editDistance(a, b), maxLength)

calculateSimilarity(a, b) ==
    LET s1 == toLowerCase(a)
        s2 == toLowerCase(b)
        maxLength == Max2(Len(s1), Len(s2))
    IN IF s1 = s2 THEN Score(1, 1)
       ELSE IF includes(s1, s2) \/ includes(s2, s1) THEN Score(4, 5)
       ELSE IF maxLength = 0 THEN Score(1, 1)
       ELSE Score(maxLength - editDistance(s1, s2), maxLength)

\* ---------------------------------------------------------------- ProjectInfo
\* path, fullPath and relativePath are functions of name and are left out
ProjectInfo(n, t) == [name |-> n, modifiedTime |-> t]

\* ---------------------------------------------------------------- Array.prototype.sort
\* ECMAScript requires Array.prototype.sort to be stable: an element goes
\* behind every element that the comparator does not place after it.

\* (a, b) => b.modifiedTime.getTime() - a.modifiedTime.getTime()
dateCompareAscending(a, b) == a.modifiedTime - b.modifiedTime

dateCompare(a, b) == b.modifiedTime - a.modifiedTime

RECURSIVE insertByDate(_, _)
insertByDate(s, x) ==
    IF s = <<>> THEN <<x>>
    ELSE IF dateCompare(Head(s), x) <= 0
         THEN <<Head(s)>> \o insertByDate(Tail(s), x)
         ELSE <<x>> \o s

RECURSIVE sortPrefixByDate(_, _)
sortPrefixByDate(ps, k) ==
    IF k = 0 THEN <<>> ELSE insertByDate(sortPrefixByDate(ps, k - 1), ps[k])

sortProjectsByDate(ps) == sortPrefixByDate(ps, Len(ps))

\* ---------------------------------------------------------------- fuzzyMatchProjects
\* match.score > 0.3 on IEEE doubles.  The literal 0.3 is the double just
\* below 3/10 and 1 - 7/10 evaluates to 0.30000000000000004, so a score
\* whose real value is exactly 3/10 passes the test; every other score
\* compares as its real value does.
aboveThresholdHalf(score) == 2 * score[1] > score[2]

aboveThreshold(score) == 10 * score[1] >= 3 * score[2]

\* (a, b) => b.score - a.score, reduced to its sign
scoreCompareNone(a, b) == 0

scoreCompare(a, b) ==
    IF ScoreLT(a.score, b.score) THEN 1
    ELSE IF ScoreLT(b.score, a.score) THEN -1 ELSE 0

RECURSIVE insertByScore(_, _)
insertByScore(s, x) ==
    IF s = <<>> THEN <<x>>
    ELSE IF scoreCompare(Head(s), x) <= 0
         THEN <<Head(s)>> \o insertByScore(Tail(s), x)
         ELSE <<x>> \o s

RECURSIVE sortPrefixByScore(_, _)
sortPrefixByScore(ms, k) ==
    IF k = 0 THEN <<>> ELSE insertByScore(sortPrefixByScore(ms, k - 1), ms[k])

sortByScore(ms) == sortPrefixByScore(ms, Len(ms))

\* Array.prototype.filter with match => match.score > 0.3
RECURSIVE filterAboveThreshold(_)
filterAboveThreshold(ms) ==
    IF ms = <<>> THEN <<>>
    ELSE IF aboveThreshold(Head(ms).score)
         THEN <<Head(ms)>> \o filterAboveThreshold(Tail(ms))
         ELSE filterAboveThreshold(Tail(ms))

fuzzyMatchProjects(ps, term) ==
    IF trim(term) = <<>> THEN <<>>
    ELSE LET scored == [i \in 1..Len(ps) |->
                          [project |-> ps[i],
                           score   |-> calculateSimilarity(ps[i].name, term)]]
         IN sortByScore(filterAboveThreshold(scored))

\* ---------------------------------------------------------------- paginateResults
\* Math.ceil(n / d) for n >= 0, d >= 1
ceilDiv(n, d) == (n + d - 1) \div d

\* Array.prototype.slice(start, end): negative indices count from the end,
\* both bounds are clipped to the array
slice(s, start, end) ==
    LET len  == Len(s)
        from == IF start < 0 THEN Max2(len + start, 0) ELSE Min2(start, len)
        to   == IF end < 0 THEN Max2(len + end, 0) ELSE Min2(end, len)
    IN SubSeq(s, from + 1, to)

paginateResultsNoClamp(its, pg, size) ==
    LET totalItems  == Len(its)
        totalPages  == ceilDiv(totalItems, size)
        currentPage == Max2(pg, 1)
        startIndex  == (currentPage - 1) * size
        endIndex    == startIndex + size
    IN [items       |-> slice(its, startIndex, endIndex),
        totalPages  |-> totalPages,
        currentPage |-> currentPage,
        totalItems  |-> totalItems]

paginateResultsOverlap(its, pg, size) ==
    LET totalItems  == Len(its)
        totalPages  == ceilDiv(totalItems, size)
        currentPage == Min2(Max2(pg, 1), totalPages)
        startIndex  == (currentPage - 1) * size
        endIndex    == startIndex + size + 1
    IN [items       |-> slice(its, startIndex, endIndex),
        totalPages  |-> totalPages,
        currentPage |-> currentPage,
        totalItems  |-> totalItems]

paginateResults(its, pg, size) ==
    LET totalItems  == Len(its)
        totalPages  == ceilDiv(totalItems, size)
        currentPage == Min2(Max2(pg, 1), totalPages)
        startIndex  == (currentPage - 1) * size
        endIndex    == startIndex + size
    IN [items       |-> slice(its, startIndex, endIndex),
        totalPages  |-> totalPages,
        currentPage |-> currentPage,
        totalItems  |-> totalItems]

\* ---------------------------------------------------------------- inputs
Alphabet   == {"a", "b", "A"}
SimStrings == SeqsUpTo(Alphabet, MaxLen)

NameSample   == <<"S","a","m","p","l","e">>
NameAlgo     == <<"A","l","g","o">>
NameAnother  == <<"A","n","o","t","h","e","r">>
NameDashed   == <<"a","-","l","-","g","-","t","e","s","t">>
NameMyTestAlgorithm ==
    <<"M","y"," ","T","e","s","t"," ","A","l","g","o","r","i","t","h","m">>

\* names of enumerated candidates: two that contain "alg", one at edit
\* distance 7 of 10 from it, one far from it
CandidateNames == <<NameMyTestAlgorithm, NameAlgo, NameDashed, NameAnother>>
\* names of directory entries, in enumeration order
EntryNames == <<NameSample, NameMyTestAlgorithm, NameAnother, NameAlgo, NameDashed>>

QueryAlg    == <<"a","l","g">>
QuerySample == <<"s","a","m","p","l","e">>
QueryBlank  == <<" "," ">>
QueryEmpty  == <<>>
Queries     == {QueryAlg, QuerySample, QueryBlank, QueryEmpty}

IsInjective(f) == \A i, j \in DOMAIN f : i # j => f[i] # f[j]

\* candidate sequences: distinct names (directory entries), any order
ProjectSeqs ==
    UNION { { [i \in 1..k |-> ProjectInfo(CandidateNames[ns[i]], ts[i])] :
                ns \in {f \in [1..k -> 1..Len(CandidateNames)] : IsInjective(f)},
                ts \in [1..k -> 1..MaxTime] } : k \in 0..MaxProjects }

\* the candidate set of the documented scenario, as scanned and in recency order
ScenarioScanned ==
    <<ProjectInfo(NameSample, 100), ProjectInfo(NameMyTestAlgorithm, 200),
      ProjectInfo(NameAnother, 50)>>
ScenarioSorted ==
    <<ProjectInfo(NameMyTestAlgorithm, 200), ProjectInfo(NameSample, 100),
      ProjectInfo(NameAnother, 50)>>

ScenarioItems == [i \in 1..25 |-> i]
ItemSeqs  == SeqsUpTo(1..2, MaxItems) \cup {ScenarioItems}
Pages     == (-1..MaxPage) \cup {1000}
PageSizes == (1..MaxPageSize) \cup {10}

\* a directory entry: Dirent.isDirectory(), and what fs.stat will do with it
DirEntry(n, d, f, t) == [name |-> n, isDirectory |-> d, statFails |-> f, mtime |-> t]
DirListings ==
    UNION { { [i \in 1..k |-> DirEntry(EntryNames[i], ds[i], fs[i], ts[i])] :
                ds \in [1..k -> BOOLEAN], fs \in [1..k -> BOOLEAN],
                ts \in [1..k -> 1..MaxTime] } : k \in 0..MaxDirs }

\* values of the variables before the call that sets them; null for a project
NoScore     == <<0, 0>>
NoPage      == [items |-> <<>>, totalPages |-> -1, currentPage |-> -1, totalItems |-> -1]
NullProject == [name |-> <<>>, modifiedTime |-> 0]

\* ---------------------------------------------------------------- idle parts
SimIdle  == str1 = <<>> /\ str2 = <<>> /\ simScore = NoScore /\ simPc = "idle"
SortIdle == projects = <<>> /\ sortedProjects = <<>> /\ sortPc = "idle"
RunIdle  == /\ searchTerm = <<>> /\ matches = <<>> /\ targetProject = NullProject
            /\ runPc = "idle" /\ spawned = <<>>
PagIdle  == /\ items = <<>> /\ page = 1 /\ pageSize = 10 /\ pageResult = NoPage
            /\ pagPc = "idle" /\ nextPage = 1 /\ collected = <<>>
ScanIdle == /\ envSet = FALSE /\ readdirOk = FALSE /\ dirEntries = <<>>
            /\ statStatus = <<>> /\ allRejected = FALSE /\ scanPc = "idle"
            /\ scanResult = <<>>

\* ---------------------------------------------------------------- calculateSimilarity, applied
InitSim ==
    /\ str1 \in SimStrings /\ str2 \in SimStrings
    /\ simScore = NoScore /\ simPc = "call"
    /\ SortIdle /\ RunIdle /\ PagIdle /\ ScanIdle

CalculateSimilarity ==
    /\ simPc = "call"
    /\ simScore' = calculateSimilarity(str1, str2)
    /\ simPc' = "done"
    /\ UNCHANGED <<str1, str2, sortVars, runVars, pagVars, scanVars>>

NextSim == CalculateSimilarity
SpecSim == InitSim /\ [][NextSim]_vars

\* ---------------------------------------------------------------- sortProjectsByDate, applied
InitSort ==
    /\ projects \in ProjectSeqs \cup {ScenarioScanned}
    /\ sortedProjects = <<>> /\ sortPc = "call"
    /\ SimIdle /\ RunIdle /\ PagIdle /\ ScanIdle

SortProjectsByDate ==
    /\ sortPc = "call"
    /\ sortedProjects' = sortProjectsByDate(projects)
    /\ sortPc' = "done"
    /\ UNCHANGED <<projects, simVars, runVars, pagVars, scanVars>>

NextSort == SortProjectsByDate
SpecSort == InitSort /\ [][NextSort]_vars

\* ---------------------------------------------------------------- getLatestProject
\* reduce-style variant: the last record of greatest modification time
getLatestProjectLastTie(ps) ==
    IF Len(ps) = 0 THEN NullProject
    ELSE ps[CHOOSE i \in 1..Len(ps) :
               /\ \A j \in 1..Len(ps) : ps[j].modifiedTime <= ps[i].modifiedTime
               /\ \A j \in (i + 1)..Len(ps) : ps[j].modifiedTime < ps[i].modifiedTime]

getLatestProject(ps) ==
    IF Len(ps) = 0 THEN NullProject ELSE sortProjectsByDate(ps)[1]

\* spawn('bun', [fullPath/index.ts, ...args]): reached only with a target;
\* every other branch of runCommand returns before it
spawnBun(target) == IF target = NullProject THEN <<>> ELSE <<target.name>>

\* ---------------------------------------------------------------- fuzzyMatchProjects and runCommand
InitRun ==
    /\ projects \in ProjectSeqs \cup {ScenarioScanned, ScenarioSorted}
    /\ searchTerm \in Queries
    /\ sortedProjects = <<>> /\ sortPc = "idle"
    /\ matches = <<>> /\ targetProject = NullProject /\ runPc = "call"
    /\ spawned = <<>>
    /\ SimIdle /\ PagIdle /\ ScanIdle

\* fuzzyMatchProjects(projects, searchTerm)
FuzzyMatchProjects ==
    /\ runPc = "call"
    /\ matches' = fuzzyMatchProjects(projects, searchTerm)
    /\ runPc' = "matched"
    /\ UNCHANGED <<searchTerm, targetProject, spawned, sortVars, simVars, pagVars,
                   scanVars>>

\* runCommand({projectName: searchTerm}), projects being what getProjectsList
\* returned; an empty projectName is falsy and takes the final else branch
RunCommandByName ==
    /\ runPc = "call"
    /\ sortedProjects' = sortProjectsByDate(projects)
    /\ IF searchTerm = <<>>
       THEN matches' = <<>> /\ targetProject' = NullProject
       ELSE LET ms == fuzzyMatchProjects(sortedProjects', searchTerm)
            IN /\ matches' = ms
               /\ targetProject' = IF Len(ms) = 0 THEN NullProject ELSE ms[1].project
    /\ spawned' = spawnBun(targetProject')
    /\ runPc' = "ran"
    /\ UNCHANGED <<projects, sortPc, searchTerm, simVars, pagVars, scanVars>>

NextRun == FuzzyMatchProjects \/ RunCommandByName
SpecRun == InitRun /\ [][NextRun]_vars

\* ---------------------------------------------------------------- paginateResults, applied
InitPag ==
    /\ items \in ItemSeqs /\ page \in Pages /\ pageSize \in PageSizes
    /\ pageResult = NoPage /\ pagPc = "call" /\ nextPage = 1 /\ collected = <<>>
    /\ SimIdle /\ SortIdle /\ RunIdle /\ ScanIdle

\* paginateResults(items, page, pageSize)
PaginateResults ==
    /\ pagPc = "call"
    /\ pageResult' = paginateResults(items, page, pageSize)
    /\ pagPc' = "paged"
    /\ UNCHANGED <<items, page, pageSize, nextPage, collected,
                   simVars, sortVars, runVars, scanVars>>

\* the caller asks for pages 1, 2, ..., totalPages in turn and appends the items
FetchNextPage ==
    /\ pagPc \in {"paged", "walk"}
    /\ nextPage <= pageResult.totalPages
    /\ collected' = collected \o paginateResults(items, nextPage, pageSize).items
    /\ nextPage' = nextPage + 1
    /\ pagPc' = "walk"
    /\ UNCHANGED <<items, page, pageSize, pageResult,
                   simVars, sortVars, runVars, scanVars>>

FetchedAllPages ==
    /\ pagPc \in {"paged", "walk"}
    /\ nextPage > pageResult.totalPages
    /\ pagPc' = "walked"
    /\ UNCHANGED <<items, page, pageSize, pageResult, nextPage, collected,
                   simVars, sortVars, runVars, scanVars>>

NextPag == PaginateResults \/ FetchNextPage \/ FetchedAllPages
SpecPag == InitPag /\ [][NextPag]_vars

\* ---------------------------------------------------------------- getProjectsList
InitScan ==
    /\ envSet \in BOOLEAN /\ readdirOk \in BOOLEAN
    /\ dirEntries \in DirListings
    /\ statStatus = [i \in 1..Len(dirEntries) |-> "none"]
    /\ allRejected = FALSE /\ scanPc = "start" /\ scanResult = <<>>
    /\ SimIdle /\ SortIdle /\ RunIdle /\ PagIdle

\* indices of the entries kept by entries.filter(entry => entry.isDirectory())
projectDirectories == {i \in 1..Len(dirEntries) : dirEntries[i].isDirectory}

RECURSIVE statRecords(_)
statRecords(k) ==
    IF k = 0 THEN <<>>
    ELSE IF k \in projectDirectories
         THEN Append(statRecords(k - 1),
                     ProjectInfo(dirEntries[k].name, dirEntries[k].mtime))
         ELSE statRecords(k - 1)

\* what Promise.all resolves to: one record per project directory, in order
projectsWithStats == statRecords(Len(dirEntries))

\* if (!projectsDir) return []
CheckEnv ==
    /\ scanPc = "start"
    /\ IF envSet THEN scanPc' = "readdir" /\ scanResult' = scanResult
                 ELSE scanPc' = "done" /\ scanResult' = <<>>
    /\ UNCHANGED <<envSet, readdirOk, dirEntries, statStatus, allRejected,
                   simVars, sortVars, runVars, pagVars>>

\* await fs.readdir: a rejection goes to the catch block; otherwise one
\* fs.stat call is issued per project directory and Promise.all awaits them
ReadDir ==
    /\ scanPc = "readdir"
    /\ IF readdirOk
       THEN /\ statStatus' = [i \in 1..Len(dirEntries) |->
                                 IF i \in projectDirectories THEN "pending" ELSE "none"]
            /\ scanPc' = "stats" /\ scanResult' = scanResult
       ELSE /\ scanPc' = "done" /\ scanResult' = <<>>
            /\ statStatus' = statStatus
    /\ UNCHANGED <<envSet, readdirOk, dirEntries, allRejected,
                   simVars, sortVars, runVars, pagVars>>

\* one fs.stat call settles; the first rejection rejects the Promise.all promise
StatSettles(i) ==
    /\ scanPc \in {"stats", "done"}
    /\ statStatus[i] = "pending"
    /\ statStatus' = [statStatus EXCEPT ![i] =
                         IF dirEntries[i].statFails THEN "rejected" ELSE "fulfilled"]
    /\ allRejected' = (allRejected \/ dirEntries[i].statFails)
    /\ UNCHANGED <<envSet, readdirOk, dirEntries, scanPc, scanResult,
                   simVars, sortVars, runVars, pagVars>>

\* the await on Promise.all resumes: rejected, the catch block returns [];
\* fulfilled (every stat call fulfilled), the records are returned
AwaitAllResumes ==
    /\ scanPc = "stats"
    /\ \/ /\ allRejected
          /\ scanResult' = <<>>
       \/ /\ \A i \in projectDirectories : statStatus[i] = "fulfilled"
          /\ scanResult' = projectsWithStats
    /\ scanPc' = "done"
    /\ UNCHANGED <<envSet, readdirOk, dirEntries, statStatus, allRejected,
                   simVars, sortVars, runVars, pagVars>>

NextScan ==
    \/ CheckEnv
    \/ ReadDir
    \/ \E i \in 1..Len(dirEntries) : StatSettles(i)
    \/ AwaitAllResumes
SpecScan == InitScan /\ [][NextScan]_vars

\* ---------------------------------------------------------------- runCommand --latest and listCommand
\* the 1-based number formatPaginatedResults prints before item k of the page
listedNumber(result, size, k) == (result.currentPage - 1) * size + k

ListPages     == {1, 2}
ListPageSizes == {1, 2, 10}

\* both commands are run against the same directory: projects is what
\* getProjectsList returns to each of them
InitCmd ==
    /\ projects \in ProjectSeqs \cup {ScenarioScanned}
    /\ sortedProjects = <<>> /\ sortPc = "idle"
    /\ searchTerm = <<>> /\ matches = <<>> /\ targetProject = NullProject
    /\ runPc = "cmd" /\ spawned = <<>>
    /\ items = <<>> /\ page \in ListPages /\ pageSize \in ListPageSizes
    /\ pageResult = NoPage /\ pagPc = "cmd" /\ nextPage = 1 /\ collected = <<>>
    /\ SimIdle /\ ScanIdle

\* runCommand({latest: true})
RunCommandLatest ==
    /\ runPc = "cmd"
    /\ sortedProjects' = sortProjectsByDate(projects)
    /\ targetProject' = getLatestProject(sortedProjects')
    /\ spawned' = spawnBun(targetProject')
    /\ runPc' = "ran"
    /\ UNCHANGED <<projects, sortPc, searchTerm, matches, simVars, pagVars, scanVars>>

\* listCommand({page, pageSize}): formatPaginatedResults pages the sorted list
ListCommand ==
    /\ pagPc = "cmd"
    /\ sortedProjects' = sortProjectsByDate(projects)
    /\ items' = sortedProjects'
    /\ pageResult' = paginateResults(sortedProjects', page, pageSize)
    /\ pagPc' = "listed"
    /\ UNCHANGED <<projects, sortPc, page, pageSize, nextPage, collected,
                   runVars, simVars, scanVars>>

NextCmd == RunCommandLatest \/ ListCommand
SpecCmd == InitCmd /\ [][NextCmd]_vars

Init == InitSim \/ InitSort \/ InitRun \/ InitPag \/ InitScan \/ InitCmd
Next == NextSim \/ NextSort \/ NextRun \/ NextPag \/ NextScan \/ NextCmd
Spec == Init /\ [][Next]_vars

\* ================================================================ properties

\* C1: for every input sequence, requested page and pageSize >= 1,
\* paginateResults returns totalPages >= 1 and currentPage in
\* [1, totalPages]; the empty sequence with page 3 and pageSize 10 yields
\* items = [], totalPages = 1, currentPage = 1, totalItems = 0.
PageNumbersAtLeastOne ==
    pagPc = "paged" =>
        /\ pageResult.totalPages >= 1
        /\ pageResult.currentPage >= 1
        /\ pageResult.currentPage <= pageResult.totalPages
        /\ (items = <<>> /\ page = 3 /\ pageSize = 10) =>
               pageResult = [items |-> <<>>, totalPages |-> 1,
                             currentPage |-> 1, totalItems |-> 0]

\* the records of the project directories whose stat call succeeds
RECURSIVE StatableRecords(_)
StatableRecords(k) ==
    IF k = 0 THEN <<>>
    ELSE IF dirEntries[k].isDirectory /\ ~dirEntries[k].statFails
         THEN Append(StatableRecords(k - 1),
                     ProjectInfo(dirEntries[k].name, dirEntries[k].mtime))
         ELSE StatableRecords(k - 1)

\* C2: once the root has been enumerated, getProjectsList returns a record
\* for every subdirectory whose stat call succeeds, whatever the other stat
\* calls do and in whatever order they settle: a failing stat call only
\* removes its own entry.
ScanSkipsOnlyFailedEntries ==
    (scanPc = "done" /\ envSet /\ readdirOk) =>
        scanResult = StatableRecords(Len(dirEntries))

ScenarioAlgCall ==
    /\ searchTerm = QueryAlg
    /\ \/ runPc = "matched" /\ projects = ScenarioSorted
       \/ runPc = "ran" /\ projects \in {ScenarioScanned, ScenarioSorted}

\* C3 as stated: for the scenario candidates in recency order, query "alg"
\* returns exactly one match, "My Test Algorithm" with score 0.8.
ScenarioAlgSingleMatch ==
    ScenarioAlgCall =>
        /\ Len(matches) = 1
        /\ matches[1].project.name = NameMyTestAlgorithm
        /\ ScoreEQ(matches[1].score, Score(4, 5))

\* C3 amended: for the scenario candidates in recency order, query "alg"
\* returns exactly two matches: "My Test Algorithm" with score 0.8, then
\* "Sample" with score 1 - 4/6 = 1/3; "Another" (1 - 6/7) is not returned.
ScenarioAlgTwoMatches ==
    ScenarioAlgCall =>
        /\ Len(matches) = 2
        /\ matches[1].project = ProjectInfo(NameMyTestAlgorithm, 200)
        /\ ScoreEQ(matches[1].score, Score(4, 5))
        /\ matches[2].project = ProjectInfo(NameSample, 100)
        /\ ScoreEQ(matches[2].score, Score(1, 3))

ScenarioAlgMatched ==
    /\ runPc = "matched" /\ projects = ScenarioSorted /\ searchTerm = QueryAlg
    /\ Len(matches) = 2

\* C4: for every sequence and every pageSize >= 1, the items of pages
\* 1, 2, ..., totalPages, concatenated in that order, are exactly the
\* original sequence.
PagesReconstructItems ==
    pagPc = "walked" => collected = items

SeveralPagesWalked ==
    /\ pagPc = "walked" /\ pageResult.totalPages >= 3
    /\ Len(items) % pageSize # 0 /\ nextPage = pageResult.totalPages + 1

\* ceil(n / size) stated without division: the least k with k * size >= n
LastPage(n, size) == CHOOSE k \in 0..n : k * size >= n /\ (k - 1) * size < n
Clamp(x, lo, hi) == IF x < lo THEN lo ELSE IF x > hi THEN hi ELSE x

\* C5: for a non-empty sequence of n items and pageSize >= 1 the served
\* page is clamp(requested, 1, ceil(n / pageSize)) and its items are the
\* window of that page: a page beyond the last serves the last page (25
\* items, size 10, page 1000: page 3, items 20..24), a page <= 0 serves
\* page 1 with the first min(n, pageSize) items.
ServedPageIsClamped ==
    (pagPc = "paged" /\ items # <<>>) =>
        LET n    == Len(items)
            last == LastPage(n, pageSize)
            cur  == Clamp(page, 1, last)
        IN /\ pageResult.totalPages = last
           /\ pageResult.currentPage = cur
           /\ pageResult.totalItems = n
           /\ pageResult.items =
                 SubSeq(items, (cur - 1) * pageSize + 1, Min2(cur * pageSize, n))
           /\ page <= 0 => /\ pageResult.currentPage = 1
                           /\ pageResult.items = SubSeq(items, 1, Min2(n, pageSize))
           /\ page > last => /\ pageResult.currentPage = last
                             /\ pageResult.items # <<>>
                             /\ pageResult.items[Len(pageResult.items)] = items[n]
           /\ (items = ScenarioItems /\ pageSize = 10 /\ page = 1000) =>
                 /\ pageResult.currentPage = 3
                 /\ pageResult.items = <<21, 22, 23, 24, 25>>

BeyondLastPageServed ==
    /\ pagPc = "paged" /\ items = ScenarioItems /\ pageSize = 10 /\ page = 1000
    /\ pageResult.currentPage = 3

\* match.score > 0.3 as JavaScript evaluates it on the doubles 1, 0.8 and
\* 1 - d/m: true when the real value exceeds 3/10, and also for
\* 1 - 7/10 = 0.30000000000000004
ScoreExceedsThreshold(sc) == 3 * sc[2] <= 10 * sc[1]

\* the sequence fuzzyMatchProjects was applied to
MatchInput == IF runPc = "ran" THEN sortedProjects ELSE projects
MatchCalled ==
    /\ runPc \in {"matched", "ran"}
    /\ searchTerm # <<>>
    /\ trim(searchTerm) # <<>>

\* C6: for every candidate sequence and every non-blank query, the result
\* of fuzzyMatchProjects holds exactly the candidates whose score against
\* the query is greater than 0.3, each once and with that score.
MatchesAreExactlyAboveThreshold ==
    MatchCalled =>
        /\ \A k \in 1..Len(matches) :
              /\ \E i \in 1..Len(MatchInput) : MatchInput[i] = matches[k].project
              /\ matches[k].score =
                     calculateSimilarity(matches[k].project.name, searchTerm)
              /\ ScoreExceedsThreshold(matches[k].score)
        /\ \A i \in 1..Len(MatchInput) :
              ScoreExceedsThreshold(calculateSimilarity(MatchInput[i].name, searchTerm))
                  => \E k \in 1..Len(matches) : matches[k].project = MatchInput[i]
        /\ \A k, l \in 1..Len(matches) :
              k # l => matches[k].project # matches[l].project

SomeKeptSomeDropped ==
    /\ runPc = "matched" /\ searchTerm = QueryAlg
    /\ Len(matches) >= 2 /\ Len(matches) < Len(projects)
    /\ \E k \in 1..Len(matches) :
          /\ matches[k].project.name = NameDashed
          /\ ScoreEQ(matches[k].score, Score(3, 10))

PosIn(seq, p) == CHOOSE i \in 1..Len(seq) : seq[i] = p

\* C7: the result of fuzzyMatchProjects is ordered by non-increasing
\* score, matches of equal score keep the relative order of their
\* candidates in the input sequence, and runCommand targets the first
\* match: of the best-scoring candidates, the first of the recency order.
MatchesRankedStably ==
    MatchCalled =>
        /\ \A k, l \in 1..Len(matches) :
              k < l =>
                 /\ ScoreLE(matches[l].score, matches[k].score)
                 /\ ScoreEQ(matches[k].score, matches[l].score) =>
                       PosIn(MatchInput, matches[k].project)
                           < PosIn(MatchInput, matches[l].project)
        /\ (runPc = "ran" /\ Len(matches) > 0) =>
              /\ targetProject = matches[1].project
              /\ \A k \in 1..Len(matches) :
                    /\ ScoreLE(matches[k].score, matches[1].score)
                    /\ ScoreEQ(matches[k].score, matches[1].score) =>
                          targetProject.modifiedTime >= matches[k].project.modifiedTime

TieBrokenByRecency ==
    /\ runPc = "ran" /\ Len(matches) >= 3
    /\ ScoreEQ(matches[1].score, matches[2].score)
    /\ ScoreLT(matches[3].score, matches[2].score)
    /\ projects # sortedProjects
    /\ targetProject = matches[1].project
    /\ PosIn(projects, matches[2].project) < PosIn(projects, matches[1].project)

\* C8: for all strings a and b, calculateSimilarity(a, b) equals
\* calculateSimilarity(b, a).
SimilarityIsSymmetric ==
    simPc = "done" => simScore = calculateSimilarity(str2, str1)

SwappedPairScored ==
    /\ simPc = "done" /\ Len(str1) < Len(str2) /\ str1 # <<>>
    /\ toLowerCase(str1) # str1
    /\ ~includes(toLowerCase(str2), toLowerCase(str1))

\* unit-cost edit distance by its defining recurrence
RECURSIVE Levenshtein(_, _)
Levenshtein(a, b) ==
    IF a = <<>> THEN Len(b)
    ELSE IF b = <<>> THEN Len(a)
    ELSE IF Head(a) = Head(b) THEN Levenshtein(Tail(a), Tail(b))
    ELSE 1 + Min2(Min2(Levenshtein(Tail(a), b), Levenshtein(a, Tail(b))),
                  Levenshtein(Tail(a), Tail(b)))

IsSubstring(t, s) == \E i, j \in 0..Len(s) : i <= j /\ SubSeq(s, i + 1, j) = t

\* C9: calculateSimilarity is the ordered three-tier reference: 1 when
\* the case-folded strings are equal (both empty included), otherwise 0.8
\* when one case-folded string is a substring of the other, otherwise
\* 1 - levenshtein / max(len) over the case-folded strings; the result is
\* within [0, 1].
SimilarityIsThreeTier ==
    simPc = "done" =>
        LET f1 == toLowerCase(str1)
            f2 == toLowerCase(str2)
            m  == Max2(Len(f1), Len(f2))
        IN /\ IF f1 = f2 THEN simScore = Score(1, 1)
              ELSE IF IsSubstring(f1, f2) \/ IsSubstring(f2, f1)
                   THEN simScore = Score(4, 5)
                   ELSE /\ simScore[2] = m
                        /\ simScore[1] = m - Levenshtein(f1, f2)
           /\ simScore[2] > 0
           /\ 0 <= simScore[1] /\ simScore[1] <= simScore[2]

EditDistanceTierScored ==
    /\ simPc = "done" /\ str1 = <<"A", "b">> /\ str2 = <<"a", "a">>
    /\ simScore = Score(1, 2)

\* C10: sortProjectsByDate returns a permutation of its input that is
\* non-increasing in modification time, records of equal modification time
\* keeping their relative order.
SortedByDateStably ==
    sortPc = "done" =>
        /\ Len(sortedProjects) = Len(projects)
        /\ \A i \in 1..Len(projects) :
              \E k \in 1..Len(sortedProjects) : sortedProjects[k] = projects[i]
        /\ \A k, l \in 1..Len(sortedProjects) :
              k < l =>
                 /\ sortedProjects[k].modifiedTime >= sortedProjects[l].modifiedTime
                 /\ sortedProjects[k].modifiedTime = sortedProjects[l].modifiedTime =>
                       PosIn(projects, sortedProjects[k])
                           < PosIn(projects, sortedProjects[l])

TiedRecordsReordered ==
    /\ sortPc = "done" /\ Len(projects) >= 3
    /\ sortedProjects # projects
    /\ \E k \in 1..(Len(sortedProjects) - 1) :
          sortedProjects[k].modifiedTime = sortedProjects[k + 1].modifiedTime

\* C11: for the same scanned candidates, the project runCommand --latest
\* targets and launches is the record listCommand shows as item 1 of page
\* 1: a record of greatest modification time and, among those, the first
\* the scan enumerated; with no candidates the latest project is null and
\* nothing is launched.
LatestIsFirstListed ==
    (runPc = "ran" /\ pagPc = "listed") =>
        /\ projects = <<>> => (targetProject = NullProject /\ spawned = <<>>)
        /\ projects # <<>> =>
              /\ targetProject # NullProject
              /\ spawned = <<targetProject.name>>
              /\ \A i \in 1..Len(projects) :
                    /\ projects[i].modifiedTime <= targetProject.modifiedTime
                    /\ projects[i].modifiedTime = targetProject.modifiedTime =>
                          PosIn(projects, targetProject) <= i
              /\ page = 1 =>
                    /\ pageResult.currentPage = 1
                    /\ listedNumber(pageResult, pageSize, 1) = 1
                    /\ pageResult.items[1] = targetProject

LatestAmongTiesListedFirst ==
    /\ runPc = "ran" /\ pagPc = "listed" /\ page = 1
    /\ Len(projects) >= 3
    /\ projects[1].modifiedTime < targetProject.modifiedTime
    /\ \E i, j \in 1..Len(projects) :
          i # j /\ projects[i].modifiedTime = targetProject.modifiedTime
                /\ projects[j].modifiedTime = targetProject.modifiedTime
    /\ pageResult.items[1] = targetProject
    /\ spawned = <<targetProject.name>>

====
